---- MODULE Spec2Model ----
(***************************************************************************)
(* Model of the Palworld save container codec:                             *)
(*   palworld_save_tools/palsav.py     (format detector, deflate engine)   *)
(*   palworld_save_tools/oodle_lib.py  (OodleLib: native engine)           *)
(*                                                                         *)
(* Bytes are integers 0..255, byte strings are sequences of bytes.  Every  *)
(* call of the library is independent and stateless, so the state machine  *)
(* is a harness around one call chain: an input payload is chosen, an      *)
(* encoder (or a foreign producer) writes a container, the container may   *)
(* be damaged or wrapped, and a decoder reads it.                          *)
(***************************************************************************)
EXTENDS Integers, Sequences, FiniteSets, TLC

(***************************************************************************)
(* Bounds of the model.                                                    *)
(***************************************************************************)
\* longest payload (gvas_data) handed to an encoder
MaxLen == 13

(***************************************************************************)
(* Byte-string helpers with Python's semantics.                            *)
(***************************************************************************)
Min(a, b) == IF a < b THEN a ELSE b

\* data[a:b] for 0 <= a, 0 <= b: indices clamp to the length, never raise
Slice(s, a, b) ==
    LET hi == Min(b, Len(s))
    IN  IF a >= hi THEN <<>> ELSE [i \in 1..(hi - a) |-> s[a + i]]

\* data[a:]
SliceFrom(s, a) == Slice(s, a, Len(s))

\* data.startswith(p)
StartsWith(s, p) == Len(s) >= Len(p) /\ Slice(s, 0, Len(p)) = p

\* n.to_bytes(4, byteorder="little"); the models' lengths stay below 2^32
ToBytes4(n) ==
    << n % 256, (n \div 256) % 256, (n \div 65536) % 256, (n \div 16777216) % 256 >>

\* int.from_bytes(b, byteorder="little") for a slice of at most 4 bytes
RECURSIVE FromBytes(_)
FromBytes(b) ==
    IF b = <<>> THEN 0 ELSE b[1] + 256 * FromBytes(Tail(b))

\* b"PlZ", b"PlM", b"CNK"
PlZ == <<80, 108, 90>>

PlM == <<80, 108, 77>>

CNK == <<67, 78, 75>>

\* MAGIC_BYTES = [b"PlZ", b"PlM"]
MAGIC_BYTES == {PlZ, PlM}

(***************************************************************************)
(* zlib.  A zlib stream is  CMF FLG | deflate body | Adler-32 (big endian).*)
(* The header test and the checksum are the real ones.  The deflate body   *)
(* is modelled at byte granularity (real deflate is bit-packed Huffman     *)
(* code): a body is a list of tokens closed by an end-of-block byte,       *)
(*     n  b1..bn   (1 <= n <= 127)  n literal bytes                        *)
(*     128+k       (0 <= k <= 127)  a match of distance 1, length k+3      *)
(*     0                            end of block                           *)
(* zlib.compress emits literals and, as zlib's matcher does on a run of    *)
(* five or more equal bytes, two literals followed by a match.  For the    *)
(* payloads of this model the stream lengths equal those of the real       *)
(* zlib.compress for 1..MaxLen bytes (n+8 without run, 11 for a run of     *)
(* 5..132), and one byte less for the empty payload (7 for 8).             *)
(***************************************************************************)
\* Adler-32 of data, as its four big-endian bytes
RECURSIVE AdlerSums(_, _, _, _)
AdlerSums(data, i, a, b) ==
    IF i > Len(data) THEN <<a, b>>
    ELSE LET a2 == (a + data[i]) % 65521
         IN  AdlerSums(data, i + 1, a2, (b + a2) % 65521)

Adler32(data) ==
    LET ab == AdlerSums(data, 1, 1, 0)
    IN  << ab[2] \div 256, ab[2] % 256, ab[1] \div 256, ab[1] % 256 >>

\* length of the run of equal bytes that starts at s[i]
RECURSIVE RunLen(_, _)
RunLen(s, i) ==
    IF i < Len(s) /\ s[i + 1] = s[i] THEN 1 + RunLen(s, i + 1) ELSE 1

\* the literal tokens for the bytes lit
RECURSIVE Literals(_)
Literals(lit) ==
    IF lit = <<>> THEN <<>>
    ELSE IF Len(lit) <= 127 THEN <<Len(lit)>> \o lit
    ELSE <<127>> \o SubSeq(lit, 1, 127) \o Literals(SubSeq(lit, 128, Len(lit)))

\* the deflate body of s from position i on, lit being the pending literals
RECURSIVE DeflateFrom(_, _, _)
DeflateFrom(s, i, lit) ==
    IF i > Len(s) THEN Literals(lit) \o <<0>>
    ELSE LET r == Min(RunLen(s, i), 132)
         IN  IF r >= 5
             THEN Literals(lit \o <<s[i], s[i]>>) \o <<128 + (r - 5)>>
                      \o DeflateFrom(s, i + r, <<>>)
             ELSE DeflateFrom(s, i + 1, Append(lit, s[i]))

\* zlib.compress(data)
ZCompress(data) == <<120, 156>> \o DeflateFrom(data, 1, <<>>) \o Adler32(data)

\* another valid zlib stream of data: one stored (literal) run, as written by a
\* producer that does not search for matches (zlib level 0); data at most 127 bytes
ZStored(data) ==
    <<120, 1>> \o Literals(data) \o <<0>> \o Adler32(data)

\* inflate the tokens of s from position i on, out being the output so far:
\* [ok, out, next], next = index of the first byte after the end-of-block
RECURSIVE InflateFrom(_, _, _)
InflateFrom(s, i, out) ==
    IF i > Len(s) THEN [ok |-> FALSE, out |-> <<>>, next |-> i]
    ELSE LET c == s[i]
         IN  IF c = 0 THEN [ok |-> TRUE, out |-> out, next |-> i + 1]
             ELSE IF c <= 127
             THEN IF i + c > Len(s) THEN [ok |-> FALSE, out |-> <<>>, next |-> i]
                  ELSE InflateFrom(s, i + c + 1, out \o SubSeq(s, i + 1, i + c))
             ELSE IF out = <<>> THEN [ok |-> FALSE, out |-> <<>>, next |-> i]
                  ELSE InflateFrom(s, i + 1,
                           out \o [j \in 1..(c - 125) |-> out[Len(out)]])

\* zlib.decompress(s): [ok, out]; ok = FALSE stands for zlib.error.  Bytes after
\* the checksum are ignored, as zlib.decompress does.
ZDecompress(s) ==
    IF Len(s) < 2 \/ s[1] % 16 # 8 \/ s[1] \div 16 > 7
          \/ (s[1] * 256 + s[2]) % 31 # 0 \/ (s[2] \div 32) % 2 # 0
    THEN [ok |-> FALSE, out |-> <<>>]
    ELSE LET r == InflateFrom(s, 3, <<>>)
         IN  IF r.ok /\ r.next + 3 <= Len(s)
                  /\ SubSeq(s, r.next, r.next + 3) = Adler32(r.out)
             THEN [ok |-> TRUE, out |-> r.out]
             ELSE [ok |-> FALSE, out |-> <<>>]

(***************************************************************************)
(* palsav.py: the format detector and the deflate engine.                  *)
(***************************************************************************)
\* check_sav_format: 1 = PLM (Oodle), 0 = PLZ (zlib), -1 = unknown
check_sav_format(sav_data) ==
    IF Len(sav_data) < 24 THEN -1
    ELSE LET header_offset == IF StartsWith(sav_data, CNK) THEN 12 ELSE 0
         IN  IF Len(sav_data) < header_offset + 11 THEN -1
             ELSE LET magic == Slice(sav_data, header_offset + 8, header_offset + 11)
                  IN  IF magic = PlM THEN 1
                      ELSE IF magic = PlZ THEN 0
                      ELSE -1

\* the header fields a decoder has read; NoHeader before it reads them
Header(ulen, clen, magic_bytes, save_type, offset) ==
    [uncompressed_len |-> ulen, compressed_len |-> clen,
     magic_bytes |-> magic_bytes, header_save_type |-> save_type,
     data_start_offset |-> offset]

NoHeader == Header(-1, -1, <<>>, -1, -1)

\* what a decoder hands back: err = "none" when it returns (data, save_type);
\* the other fields record what it read (h) and did on the way: passes, the
\* decompression calls made, first_len, the length of the first one's output
DecodeResult(err, data, passes, first_len, h) ==
    [err |-> err,
     data |-> IF err = "none" THEN data ELSE <<>>,
     save_type |-> IF err = "none" THEN h.header_save_type ELSE -1,
     passes |-> passes, first_len |-> first_len] @@ h

\* the wrapper test of the deflate decoder: magic_bytes == b"CNK", magic_bytes
\* being data[8:11]
ZlibHasWrapper(data) == Slice(data, 8, 11) = CNK

\* save_type not in [0x30, 0x31, 0x32] raises "unknown save type"
ValidSaveType(save_type) == save_type \in {48, 49, 50}

\* slip: only a declared length below the bytes present is refused
SingleLayerLengthOk_AtLeast(compressed_len, data, data_start_offset) ==
    compressed_len >= Len(data) - data_start_offset

\* single layer: compressed_len != len(data) - data_start_offset raises
SingleLayerLengthOk(compressed_len, data, data_start_offset) ==
    compressed_len = Len(data) - data_start_offset

\* slip: the inner length is not checked
InnerLengthOk_Unchecked(compressed_len, uncompressed_data) == TRUE

\* double layer: compressed_len != len(uncompressed_data) raises
InnerLengthOk(compressed_len, uncompressed_data) ==
    compressed_len = Len(uncompressed_data)

\* slip: the final length is not checked
FinalLengthOk_Unchecked(uncompressed_len, uncompressed_data) == TRUE

\* uncompressed_len != len(uncompressed_data) raises
FinalLengthOk(uncompressed_len, uncompressed_data) ==
    uncompressed_len = Len(uncompressed_data)

\* the decoder's body once the header fields h are read
ZlibDecodeBody(data, h) ==
    IF h.magic_bytes \notin MAGIC_BYTES
    THEN IF h.magic_bytes = <<0, 0, 0>> /\ h.uncompressed_len = 0
               /\ h.compressed_len = 0
         THEN DecodeResult("not a compressed Palworld save, too many null bytes",
                           <<>>, 0, -1, h)
         ELSE DecodeResult("not a compressed Palworld save", <<>>, 0, -1, h)
    ELSE IF ~ValidSaveType(h.header_save_type)
    THEN DecodeResult("unknown save type", <<>>, 0, -1, h)
    ELSE IF h.header_save_type \notin {49, 50}
    THEN DecodeResult("unhandled compression type", <<>>, 0, -1, h)
    ELSE IF h.header_save_type = 49
              /\ ~SingleLayerLengthOk(h.compressed_len, data, h.data_start_offset)
    THEN DecodeResult("incorrect compressed length", <<>>, 0, -1, h)
    ELSE LET first == ZDecompress(SliceFrom(data, h.data_start_offset))
         IN  IF ~first.ok THEN DecodeResult("zlib.error", <<>>, 1, -1, h)
             ELSE IF h.header_save_type = 50
             THEN IF ~InnerLengthOk(h.compressed_len, first.out)
                  THEN DecodeResult("incorrect compressed length", <<>>,
                                    1, Len(first.out), h)
                  ELSE LET second == ZDecompress(first.out)
                       IN  IF ~second.ok
                           THEN DecodeResult("zlib.error", <<>>,
                                             2, Len(first.out), h)
                           ELSE IF ~FinalLengthOk(h.uncompressed_len, second.out)
                           THEN DecodeResult("incorrect uncompressed length", <<>>,
                                             2, Len(first.out), h)
                           ELSE DecodeResult("none", second.out,
                                             2, Len(first.out), h)
             ELSE IF ~FinalLengthOk(h.uncompressed_len, first.out)
             THEN DecodeResult("incorrect uncompressed length", <<>>,
                               1, Len(first.out), h)
             ELSE DecodeResult("none", first.out, 1, Len(first.out), h)

\* decompress_sav_to_gvas_with_zlib(data); data[11] and data[23] raise IndexError
\* on a buffer that short
decompress_sav_to_gvas_with_zlib(data) ==
    IF Len(data) < 12 \/ (ZlibHasWrapper(data) /\ Len(data) < 24)
    THEN DecodeResult("IndexError", <<>>, 0, -1, NoHeader)
    ELSE LET off == IF ZlibHasWrapper(data) THEN 12 ELSE 0
         IN  ZlibDecodeBody(data,
                 Header(FromBytes(Slice(data, off, off + 4)),
                        FromBytes(Slice(data, off + 4, off + 8)),
                        Slice(data, off + 8, off + 11),
                        data[off + 12],
                        off + 12))

\* decompress_sav_to_gvas(data): the dispatcher.  The native branch hands the
\* buffer to OozLib, which is outside this model: the branch is only recorded.
decompress_sav_to_gvas(data) ==
    LET format == check_sav_format(data)
    IN  IF format = 0 THEN decompress_sav_to_gvas_with_zlib(data)
        ELSE IF format = 1
        THEN DecodeResult("handed to OozLib", <<>>, 0, -1, NoHeader)
        ELSE DecodeResult("Unknown save format", <<>>, 0, -1, NoHeader)

\* what an encoder hands back: err = "none" when it returns the container sav
EncodeResult(err, sav, zlib_calls, oodle_calls) ==
    [err |-> err, sav |-> IF err = "none" THEN sav ELSE <<>>,
     zlib_calls |-> zlib_calls, oodle_calls |-> oodle_calls]

\* slip: compressed_len taken after the second zlib.compress
DeclaredCompressedLen_Final(first, final) == Len(final)

\* the value written at bytes 4..8: compressed_len = len(compressed_data), taken
\* after the first zlib.compress and before the second
DeclaredCompressedLen(first, final) == Len(first)

\* compress_gvas_to_sav_with_zlib(data, save_type)
compress_gvas_to_sav_with_zlib(data, save_type) ==
    LET first == ZCompress(data)
        final == IF save_type = 50 THEN ZCompress(first) ELSE first
    IN  EncodeResult("none",
                     ToBytes4(Len(data))
                         \o ToBytes4(DeclaredCompressedLen(first, final))
                         \o PlZ \o <<save_type>> \o final,
                     IF save_type = 50 THEN 2 ELSE 1, 0)

\* compress_gvas_to_sav(data, save_type, zlib): zlib = False hands the payload to
\* OozLib, which is outside this model
compress_gvas_to_sav(data, save_type, zlib) ==
    IF zlib THEN compress_gvas_to_sav_with_zlib(data, save_type)
    ELSE EncodeResult("handed to OozLib", <<>>, 0, 0)

(***************************************************************************)
(* The native codec behind OodleLib.oodle_lib.  It is an external library, *)
(* stood in for by a mock: a lossless pair whose stream is the two-byte    *)
(* Kraken marker followed by the raw bytes.  The mock has three modes:     *)
(*   "lossless"  behaves; a malformed stream, or one whose raw size is not *)
(*               the expected output size, yields 0 (OODLELZ_FAILED)       *)
(*   "short"     decompression writes one byte less than asked for         *)
(*   "failing"   every call reports the negative status -1                 *)
(***************************************************************************)
CodecModes == {"lossless", "short", "failing"}

\* OodleLZ_Compress(OODLE_COMPRESSOR, gvas_data, src_len, comp_array, ...):
\* [result, comp], comp being comp_array.raw[:result]
OodleLZ_Compress(raw, mode) ==
    IF mode = "failing" THEN [result |-> -1, comp |-> <<>>]
    ELSE [result |-> Len(raw) + 2, comp |-> <<140, 6>> \o raw]

\* OodleLZ_Decompress(compressed_data, compressed_len, gvas_buffer,
\* uncompressed_len, ...): [result, buf], buf being gvas_buffer.raw afterwards
\* (ctypes.create_string_buffer(uncompressed_len) starts zero-filled)
OodleLZ_Decompress(comp, compressed_len, uncompressed_len, mode) ==
    LET zeros == [i \in 1..uncompressed_len |-> 0]
        wellformed == /\ Len(comp) = compressed_len
                      /\ Len(comp) >= 2 /\ comp[1] = 140 /\ comp[2] = 6
                      /\ Len(comp) - 2 = uncompressed_len
        n == IF mode = "short" /\ uncompressed_len > 0
             THEN uncompressed_len - 1 ELSE uncompressed_len
    IN  IF mode = "failing" THEN [result |-> -1, buf |-> zeros]
        ELSE IF ~wellformed THEN [result |-> 0, buf |-> zeros]
        ELSE [result |-> n,
              buf |-> [i \in 1..uncompressed_len |->
                          IF i <= n THEN comp[i + 2] ELSE 0]]

(***************************************************************************)
(* oodle_lib.py: OodleLib.                                                 *)
(***************************************************************************)
\* OodleLib.check_sav_format: 1 = PLM (Oodle), 0 = PLZ (zlib), -1 = unknown
Oodle_check_sav_format(sav_data) ==
    IF Len(sav_data) < 24 THEN -1
    ELSE LET header_offset == IF StartsWith(sav_data, CNK) THEN 12 ELSE 0
         IN  IF Len(sav_data) < header_offset + 11 THEN -1
             ELSE LET magic == Slice(sav_data, header_offset + 8, header_offset + 11)
                  IN  IF magic = PlM THEN 1
                      ELSE IF magic = PlZ THEN 0
                      ELSE -1

\* OodleLib._parse_sav_header: (uncompressed_len, compressed_len, magic,
\* save_type, data_offset), or ValueError for a buffer below 24 bytes
_parse_sav_header(sav_data) ==
    IF Len(sav_data) < 24
    THEN [err |-> "File too small to parse header", uncompressed_len |-> -1,
          compressed_len |-> -1, magic |-> <<>>, save_type |-> -1,
          data_offset |-> -1]
    ELSE LET header_offset == IF StartsWith(sav_data, CNK) THEN 12 ELSE 0
         IN  [err |-> "none",
              uncompressed_len |->
                  FromBytes(Slice(sav_data, header_offset, header_offset + 4)),
              compressed_len |->
                  FromBytes(Slice(sav_data, header_offset + 4, header_offset + 8)),
              magic |-> Slice(sav_data, header_offset + 8, header_offset + 11),
              save_type |-> sav_data[header_offset + 12],
              data_offset |-> IF StartsWith(sav_data, CNK) THEN 24 ELSE 12]

\* len(sav_data) < data_offset + compressed_len raises "File data is incomplete"
DataComplete(sav_data, data_offset, compressed_len) ==
    Len(sav_data) >= data_offset + compressed_len

\* result < 0 raises "Oodle decompression failed"
CodecStatusOk(result) == result >= 0

\* slip: only an output larger than the buffer is refused
CodecSizeOk_AtMost(result, uncompressed_len) == result <= uncompressed_len

\* result != uncompressed_len raises "Decompression size mismatch"
CodecSizeOk(result, uncompressed_len) == result = uncompressed_len

\* a result of OodleLib.decompress_sav_to_gvas: res as for the deflate decoder,
\* called whether OodleLZ_Decompress was called, result what it returned
OodleDecodeResult(res, called, result) ==
    [res |-> res, called |-> called, result |-> IF called THEN result ELSE 0]

\* OodleLib.decompress_sav_to_gvas(sav_data), the codec being in the given mode
Oodle_decompress_sav_to_gvas(sav_data, mode) ==
    LET none(err) ==
            OodleDecodeResult(DecodeResult(err, <<>>, 0, -1, NoHeader), FALSE, 0)
        format_result == Oodle_check_sav_format(sav_data)
    IN  IF sav_data = <<>> THEN none("SAV data cannot be empty")
        ELSE IF format_result = 0 THEN none("Detected PLZ format")
        ELSE IF format_result = -1 THEN none("Unknown SAV file format")
        ELSE LET p == _parse_sav_header(sav_data)
                 h == Header(p.uncompressed_len, p.compressed_len, p.magic,
                             p.save_type, p.data_offset)
             IN  IF p.err # "none" THEN none(p.err)
                 ELSE IF ~DataComplete(sav_data, p.data_offset, p.compressed_len)
                 THEN OodleDecodeResult(
                          DecodeResult("File data is incomplete", <<>>, 0, -1, h),
                          FALSE, 0)
                 ELSE LET compressed_data ==
                              Slice(sav_data, p.data_offset,
                                    p.data_offset + p.compressed_len)
                          d == OodleLZ_Decompress(compressed_data, p.compressed_len,
                                                  p.uncompressed_len, mode)
                      IN  IF ~CodecStatusOk(d.result)
                          THEN OodleDecodeResult(
                                   DecodeResult("Oodle decompression failed", <<>>,
                                                1, -1, h), TRUE, d.result)
                          ELSE IF ~CodecSizeOk(d.result, p.uncompressed_len)
                          THEN OodleDecodeResult(
                                   DecodeResult("Decompression size mismatch", <<>>,
                                                1, -1, h), TRUE, d.result)
                          ELSE OodleDecodeResult(
                                   DecodeResult("none", Slice(d.buf, 0, d.result),
                                                1, -1, h), TRUE, d.result)

\* slip: the native tag written whatever the save_type
OodleMagic_AlwaysNative(save_type) == PlM

\* magic_bytes chosen by save_type: b"PlZ" for 0x32, b"PlM" for 0x31
OodleMagic(save_type) == IF save_type = 50 THEN PlZ ELSE PlM

\* OodleLib.compress_gvas_to_sav(gvas_data, save_type), the codec being in the
\* given mode
Oodle_compress_gvas_to_sav(gvas_data, save_type, mode) ==
    LET src_len == Len(gvas_data)
        header(compressed_len) ==
            ToBytes4(src_len) \o ToBytes4(compressed_len)
                \o OodleMagic(save_type) \o <<save_type>>
    IN  IF src_len = 0
        THEN EncodeResult("Input GVAS data cannot be empty", <<>>, 0, 0)
        ELSE IF save_type = 50
        THEN LET first == ZCompress(gvas_data)
             IN  EncodeResult("none", header(Len(first)) \o ZCompress(first), 2, 0)
        ELSE IF save_type = 49
        THEN LET c == OodleLZ_Compress(gvas_data, mode)
             IN  IF c.result <= 0
                 THEN EncodeResult("Oodle compression failed", <<>>, 0, 1)
                 ELSE EncodeResult("none", header(Len(c.comp)) \o c.comp, 0, 1)
        ELSE EncodeResult("Unsupported save type", <<>>, 0, 0)

(***************************************************************************)
(* The harness: one call chain  input -> container -> (damage) -> (wrap)   *)
(* -> decode.                                                              *)
(***************************************************************************)
VARIABLES
    pc,         \* "input", "sav", "edited", "wrapped" or "done"
    gvas_data,  \* the payload handed to the encoder
    save_type,  \* the save_type argument handed to the encoder
    sav_data,   \* the container: the encoder's output, the decoder's input
    enc,        \* what the encoder did
    dec,        \* what the decoder did
    trail       \* the calls made so far, by name (history)

vars == <<pc, gvas_data, save_type, sav_data, enc, dec, trail>>

\* payloads: a run of one byte value and a ramp of distinct byte values, of every
\* length up to MaxLen
Run(n) == [i \in 1..n |-> 97]

Ramp(n) == [i \in 1..n |-> 48 + i]

Payloads == {Run(n) : n \in 0..MaxLen} \cup {Ramp(n) : n \in 0..MaxLen}

\* the save_type arguments tried: 0x30, 0x31, 0x32 and the unknown 0x33
SaveTypes == {48, 49, 50, 51}

NoEnc == [engine |-> "none", err |-> "none", zlib_calls |-> 0, oodle_calls |-> 0,
          codec |-> "none"]

NoDec == [decoder |-> "none", format |-> -1, codec |-> "none",
          codec_called |-> FALSE, codec_result |-> 0]
             @@ DecodeResult("none", <<>>, 0, -1, NoHeader)

Init ==
    /\ pc = "input"
    /\ gvas_data \in Payloads
    /\ save_type \in SaveTypes
    /\ sav_data = <<>>
    /\ enc = NoEnc
    /\ dec = NoDec
    /\ trail = <<>>

\* palsav.compress_gvas_to_sav(gvas_data, save_type, zlib)
Compress ==
    /\ pc = "input"
    /\ \E zlib \in BOOLEAN :
          LET r == compress_gvas_to_sav(gvas_data, save_type, zlib)
          IN  /\ enc' = [engine |-> "palsav", err |-> r.err,
                         zlib_calls |-> r.zlib_calls,
                         oodle_calls |-> r.oodle_calls, codec |-> "none"]
              /\ sav_data' = r.sav
              /\ pc' = IF r.err = "none" THEN "sav" ELSE "done"
    /\ trail' = Append(trail, "Compress")
    /\ UNCHANGED <<gvas_data, save_type, dec>>

\* OodleLib().compress_gvas_to_sav(gvas_data, save_type)
OodleCompress ==
    /\ pc = "input"
    /\ \E mode \in CodecModes :
          LET r == Oodle_compress_gvas_to_sav(gvas_data, save_type, mode)
          IN  /\ enc' = [engine |-> "oodle", err |-> r.err,
                         zlib_calls |-> r.zlib_calls,
                         oodle_calls |-> r.oodle_calls,
                         codec |-> IF r.oodle_calls > 0 THEN mode ELSE "none"]
              /\ sav_data' = r.sav
              /\ pc' = IF r.err = "none" THEN "sav" ELSE "done"
    /\ trail' = Append(trail, "OodleCompress")
    /\ UNCHANGED <<gvas_data, save_type, dec>>

\* a container written by another producer (the game, another tool): double
\* layer deflate whose inner stream is a stored one, compressed_len being the
\* inner stream's length as the decoder expects
ForeignWrite ==
    /\ pc = "input"
    /\ save_type = 50
    /\ LET inner == ZStored(gvas_data)
       IN  sav_data' = ToBytes4(Len(gvas_data)) \o ToBytes4(Len(inner))
                           \o PlZ \o <<save_type>> \o ZCompress(inner)
    /\ enc' = [NoEnc EXCEPT !.engine = "foreign"]
    /\ pc' = "sav"
    /\ trail' = Append(trail, "ForeignWrite")
    /\ UNCHANGED <<gvas_data, save_type, dec>>

\* sav_data with the bytes from offset at on replaced by those of bytes
Patch(s, at, bytes) ==
    [i \in 1..Len(s) |->
        IF i > at /\ i <= at + Len(bytes) THEN bytes[i - at] ELSE s[i]]

\* damage: another save-type byte at offset 11
SetSaveTypeByte ==
    /\ pc = "sav"
    /\ \E b \in SaveTypes \ {sav_data[12]} :
          sav_data' = Patch(sav_data, 11, <<b>>)
    /\ pc' = "edited"
    /\ trail' = Append(trail, "SetSaveTypeByte")
    /\ UNCHANGED <<gvas_data, save_type, enc, dec>>

\* damage: the declared compressed length at offset 4 off by one
SetCompressedLen ==
    /\ pc = "sav"
    /\ \E d \in {-1, 1} :
          LET n == FromBytes(Slice(sav_data, 4, 8)) + d
          IN  /\ n >= 0
              /\ sav_data' = Patch(sav_data, 4, ToBytes4(n))
    /\ pc' = "edited"
    /\ trail' = Append(trail, "SetCompressedLen")
    /\ UNCHANGED <<gvas_data, save_type, enc, dec>>

\* damage: the declared uncompressed length at offset 0 off by one
SetUncompressedLen ==
    /\ pc = "sav"
    /\ \E d \in {-1, 1} :
          LET n == FromBytes(Slice(sav_data, 0, 4)) + d
          IN  /\ n >= 0
              /\ sav_data' = Patch(sav_data, 0, ToBytes4(n))
    /\ pc' = "edited"
    /\ trail' = Append(trail, "SetUncompressedLen")
    /\ UNCHANGED <<gvas_data, save_type, enc, dec>>

\* damage: another engine tag at offset 8
SetMagic ==
    /\ pc = "sav"
    /\ \E m \in {PlZ, PlM, <<0, 0, 0>>} \ {Slice(sav_data, 8, 11)} :
          sav_data' = Patch(sav_data, 8, m)
    /\ pc' = "edited"
    /\ trail' = Append(trail, "SetMagic")
    /\ UNCHANGED <<gvas_data, save_type, enc, dec>>

\* damage: the file cut short (one byte lost, the payload lost, the header cut,
\* nothing left)
Truncate ==
    /\ pc = "sav"
    /\ \E n \in {Len(sav_data) - 1, 12, 11, 0} :
          /\ n < Len(sav_data)
          /\ sav_data' = Slice(sav_data, 0, n)
    /\ pc' = "edited"
    /\ trail' = Append(trail, "Truncate")
    /\ UNCHANGED <<gvas_data, save_type, enc, dec>>

\* damage: a byte appended to the file
AppendByte ==
    /\ pc = "sav"
    /\ sav_data' = Append(sav_data, 0)
    /\ pc' = "edited"
    /\ trail' = Append(trail, "AppendByte")
    /\ UNCHANGED <<gvas_data, save_type, enc, dec>>

\* the 12-byte outer prefixes tried: "CNK" first, "CNK" first and at offset 8,
\* "CNK" at offset 8 only
Prefixes ==
    { CNK \o <<0, 0, 0, 0, 0, 0, 0, 0, 0>>,
      CNK \o <<0, 0, 0, 0, 0>> \o CNK \o <<0>>,
      <<0, 0, 0, 0, 0, 0, 0, 0>> \o CNK \o <<0>> }

\* the legacy wrapped form: a 12-byte outer prefix before the container
Wrap ==
    /\ pc \in {"sav", "edited"}
    /\ \E prefix \in Prefixes : sav_data' = prefix \o sav_data
    /\ pc' = "wrapped"
    /\ trail' = Append(trail, "Wrap")
    /\ UNCHANGED <<gvas_data, save_type, enc, dec>>

\* palsav.decompress_sav_to_gvas(sav_data)
Decompress ==
    /\ pc \in {"sav", "edited", "wrapped"}
    /\ dec' = [decoder |-> "palsav", format |-> check_sav_format(sav_data),
               codec |-> "none", codec_called |-> FALSE, codec_result |-> 0]
                  @@ decompress_sav_to_gvas(sav_data)
    /\ pc' = "done"
    /\ trail' = Append(trail, "Decompress")
    /\ UNCHANGED <<gvas_data, save_type, sav_data, enc>>

\* OodleLib().decompress_sav_to_gvas(sav_data)
OodleDecompress ==
    /\ pc \in {"sav", "edited", "wrapped"}
    /\ \E mode \in CodecModes :
          LET r == Oodle_decompress_sav_to_gvas(sav_data, mode)
          IN  dec' = [decoder |-> "oodle",
                      format |-> Oodle_check_sav_format(sav_data),
                      codec |-> IF r.called THEN mode ELSE "none",
                      codec_called |-> r.called, codec_result |-> r.result]
                         @@ r.res
    /\ pc' = "done"
    /\ trail' = Append(trail, "OodleDecompress")
    /\ UNCHANGED <<gvas_data, save_type, sav_data, enc>>

Next ==
    \/ Compress
    \/ OodleCompress
    \/ ForeignWrite
    \/ SetSaveTypeByte
    \/ SetCompressedLen
    \/ SetUncompressedLen
    \/ SetMagic
    \/ Truncate
    \/ AppendByte
    \/ Wrap
    \/ Decompress
    \/ OodleDecompress

Spec == Init /\ [][Next]_vars

(***************************************************************************)
(* Properties.                                                             *)
(***************************************************************************)
\* the container as the encoder wrote it went straight to the decoder
FreshDeflateRoundTrip == trail = <<"Compress", "Decompress">>

FreshNativeRoundTrip == trail = <<"OodleCompress", "OodleDecompress">>

\* the header fields of a non-wrapped container
DeclaredUncompressedLen(sav) == FromBytes(Slice(sav, 0, 4))

DeclaredLen(sav) == FromBytes(Slice(sav, 4, 8))

EngineTag(sav) == Slice(sav, 8, 11)

\* C1 (as claimed): for every non-empty payload and save_type 0x31 or 0x32,
\* decoding the container the deflate encoder wrote returns (payload, save_type)
\* and raises nothing.
C1_DeflateRoundTrip ==
    (FreshDeflateRoundTrip /\ enc.err = "none" /\ gvas_data # <<>>
        /\ save_type \in {49, 50})
    => /\ dec.err = "none"
       /\ dec.data = gvas_data
       /\ dec.save_type = save_type

C3_DeclaredLenIsFinal ==
    (trail = <<"Compress">> /\ enc.err = "none")
    => /\ Slice(sav_data, 0, 4) = ToBytes4(Len(gvas_data))
       /\ DeclaredLen(sav_data) = Len(sav_data) - 12

\* C3 (amended): the deflate encoder writes the payload's length at bytes 0..4;
\* bytes 4..8 hold the length of the output of the first compression: that is
\* len(output) - 12 for a single-layer container, and for a double-layer one
\* (0x32) the length of the inner stream, which one decompression of the bytes
\* after the header gives back.
C3_DeclaredLenIsFirstPass ==
    (trail = <<"Compress">> /\ enc.err = "none")
    => /\ Slice(sav_data, 0, 4) = ToBytes4(Len(gvas_data))
       /\ Slice(sav_data, 4, 8) =
              ToBytes4(IF save_type = 50
                       THEN Len(ZDecompress(SliceFrom(sav_data, 12)).out)
                       ELSE Len(sav_data) - 12)
       /\ save_type = 50 => ZDecompress(SliceFrom(sav_data, 12)).ok

\* C3 witness: a double-layer container whose declared compressed length is not
\* the length of the bytes after the header
C3_Witness ==
    /\ trail = <<"Compress">> /\ enc.err = "none" /\ save_type = 50
    /\ gvas_data # <<>>
    /\ DeclaredLen(sav_data) # Len(sav_data) - 12

\* C4 (as claimed): a valid non-wrapped deflate container behind a 12-byte
\* prefix that begins with "CNK" is taken as wrapped by the detector and by the
\* decoder, which reads the header 12 bytes further on, the payload from offset
\* 24, and returns what decoding the container itself returns.
C4_WrappedDecodable ==
    (trail = <<"Compress", "Wrap", "Decompress">> /\ StartsWith(sav_data, CNK)
        /\ decompress_sav_to_gvas(SliceFrom(sav_data, 12)).err = "none")
    => /\ dec.format = 0
       /\ dec.data_start_offset = 24
       /\ dec.err = "none"
       /\ dec.data = decompress_sav_to_gvas(SliceFrom(sav_data, 12)).data
       /\ dec.save_type = decompress_sav_to_gvas(SliceFrom(sav_data, 12)).save_type

\* the decoder read a header with a recognised engine tag: the deflate decoder
\* a "PlZ" (or "PlM") one, the native decoder a "PlM" one
DeflateHeaderRead ==
    dec.decoder = "palsav" /\ dec.format = 0 /\ dec.magic_bytes \in MAGIC_BYTES

NativeHeaderRead ==
    dec.decoder = "oodle" /\ dec.format = 1 /\ dec.magic_bytes = PlM

\* the declared compressed length exceeds the bytes present after the header
DeclaredBeyondBuffer ==
    dec.compressed_len > Len(sav_data) - dec.data_start_offset

\* C5 (as claimed): a deflate 0x31, deflate 0x32 or native container whose
\* declared compressed length exceeds the bytes that remain after the header is
\* rejected; no payload is returned.
C5_TruncatedRejected ==
    (/\ \/ DeflateHeaderRead /\ dec.header_save_type \in {49, 50}
        \/ NativeHeaderRead
     /\ DeclaredBeyondBuffer)
    => dec.err # "none"

\* C5 (amended): a deflate 0x31 container whose declared compressed length
\* exceeds the bytes that remain after the header is rejected with "incorrect
\* compressed length" before any decompression, and a native one with "File data
\* is incomplete" before the codec is called; no payload is returned.  (For
\* deflate 0x32 the declared length is not compared with the buffer: it is the
\* length of the inner stream, checked after the first decompression.)
C5_TruncatedRejectedSingleLayer ==
    /\ (DeflateHeaderRead /\ dec.header_save_type = 49 /\ DeclaredBeyondBuffer)
       => /\ dec.err = "incorrect compressed length"
          /\ dec.passes = 0
          /\ dec.data = <<>> /\ dec.save_type = -1
    /\ (NativeHeaderRead /\ DeclaredBeyondBuffer)
       => /\ dec.err = "File data is incomplete"
          /\ ~dec.codec_called /\ dec.passes = 0
          /\ dec.data = <<>> /\ dec.save_type = -1

\* C5 witness: a single-layer deflate container that declares more compressed
\* bytes than the buffer holds, its stream intact, and is rejected
C5_Witness ==
    /\ DeflateHeaderRead /\ dec.header_save_type = 49 /\ DeclaredBeyondBuffer
    /\ ZDecompress(SliceFrom(sav_data, dec.data_start_offset)).ok
    /\ dec.err = "incorrect compressed length"

\* the engine tag of a buffer, where the claimed detector looks for it
ClaimedTag(sav) ==
    IF StartsWith(sav, CNK) THEN Slice(sav, 20, 23) ELSE Slice(sav, 8, 11)

\* C6 (as claimed): the detector reports a buffer as too small exactly when it
\* is shorter than 12 bytes, or than 24 with the "CNK" wrapper; a buffer that is
\* long enough is classified by its engine tag.
C6_SizeThreshold ==
    dec.decoder # "none"
    => IF Len(sav_data) < (IF StartsWith(sav_data, CNK) THEN 24 ELSE 12)
       THEN dec.format = -1
       ELSE dec.format = (IF ClaimedTag(sav_data) = PlM THEN 1
                          ELSE IF ClaimedTag(sav_data) = PlZ THEN 0 ELSE -1)

\* C7 (as claimed, for the non-wrapped layout): a buffer of at least 24 bytes
\* (enough for either header layout) with engine tag "PlZ" or "PlM" and a
\* save_type byte other than 0x30, 0x31, 0x32 is rejected for its save type by
\* the engine's decoder before any decompression, and no payload is returned.
C7_BadSaveTypeRejected ==
    (/\ Len(sav_data) >= 24
     /\ ~StartsWith(sav_data, CNK) /\ ~ZlibHasWrapper(sav_data)
     /\ \/ dec.decoder = "palsav" /\ EngineTag(sav_data) = PlZ
        \/ dec.decoder = "oodle" /\ EngineTag(sav_data) = PlM
     /\ sav_data[12] \notin {48, 49, 50})
    => /\ dec.err = "unknown save type"
       /\ dec.passes = 0 /\ ~dec.codec_called
       /\ dec.data = <<>> /\ dec.save_type = -1

\* C8 (as claimed): an encoder called with an empty payload raises the
\* empty-input error and writes no container, whatever the engine and save_type.
C8_EmptyRejected ==
    (gvas_data = <<>> /\ enc.engine \in {"palsav", "oodle"}
        /\ enc.err # "handed to OozLib")
    => /\ enc.err = "Input GVAS data cannot be empty"
       /\ pc = "done" /\ sav_data = <<>>

\* C9: a deflate container of save_type 0x32 whose first decompression yields a
\* length other than the declared compressed length is rejected with "incorrect
\* compressed length", and the second decompression is not performed.
C9_InnerLengthChecked ==
    (/\ DeflateHeaderRead /\ dec.header_save_type = 50
     /\ ZDecompress(SliceFrom(sav_data, dec.data_start_offset)).ok
     /\ Len(ZDecompress(SliceFrom(sav_data, dec.data_start_offset)).out)
            # dec.compressed_len)
    => /\ dec.err = "incorrect compressed length"
       /\ dec.passes = 1
       /\ dec.data = <<>> /\ dec.save_type = -1

\* C9 witness: a double-layer container, both streams intact, whose declared
\* compressed length is off by one, rejected after one decompression
C9_Witness ==
    /\ DeflateHeaderRead /\ dec.header_save_type = 50
    /\ ZDecompress(SliceFrom(sav_data, dec.data_start_offset)).ok
    /\ ZDecompress(ZDecompress(SliceFrom(sav_data, dec.data_start_offset)).out).ok
    /\ dec.first_len # dec.compressed_len
    /\ dec.err = "incorrect compressed length" /\ dec.passes = 1

\* C10: when the native codec, called on a "PlM" container of any save_type,
\* reports a negative status or an output size other than the declared
\* uncompressed length, decode raises a codec error ("Oodle decompression
\* failed" for a negative status, "Decompression size mismatch" otherwise) and
\* returns no data.
C10_NativeShortOutputRejected ==
    (/\ NativeHeaderRead /\ dec.codec_called
     /\ dec.codec_result < 0 \/ dec.codec_result # dec.uncompressed_len)
    => /\ dec.err = (IF dec.codec_result < 0 THEN "Oodle decompression failed"
                     ELSE "Decompression size mismatch")
       /\ dec.data = <<>> /\ dec.save_type = -1

\* C10 witness: a "PlM" container of save_type 0x30 for which the codec wrote
\* fewer bytes than declared, rejected
C10_Witness ==
    /\ NativeHeaderRead /\ dec.header_save_type = 48
    /\ dec.codec_called /\ dec.codec = "short"
    /\ dec.codec_result >= 0 /\ dec.codec_result < dec.uncompressed_len
    /\ dec.err = "Decompression size mismatch"

\* a decoder was called and returned (data, save_type) instead of raising
DecodeReturned == dec.decoder \in {"palsav", "oodle"} /\ dec.err = "none"

\* C11: whenever a decoder returns, the payload it returns is as long as the
\* uncompressed length declared in the header it read (the four bytes 12 before
\* the payload offset), the save_type it returns is that header's save-type
\* byte, and on the deflate path the save_type is 0x31 with exactly one
\* decompression or 0x32 with exactly two, never 0x30; the native path makes
\* exactly one codec call.
C11_DecodeSuccessPostcondition ==
    DecodeReturned
    => /\ dec.data_start_offset \in {12, 24}
       /\ Len(sav_data) >= dec.data_start_offset
       /\ Len(dec.data) = dec.uncompressed_len
       /\ Len(dec.data) =
              FromBytes(Slice(sav_data, dec.data_start_offset - 12,
                              dec.data_start_offset - 8))
       /\ dec.save_type = dec.header_save_type
       /\ dec.save_type = sav_data[dec.data_start_offset]
       /\ dec.decoder = "palsav"
          => /\ dec.save_type \in {49, 50}
             /\ dec.passes = (IF dec.save_type = 49 THEN 1 ELSE 2)
             /\ ~dec.codec_called
       /\ dec.decoder = "oodle"
          => dec.codec_called /\ dec.passes = 1

\* C11 witness: the deflate decoder returned a non-empty payload from a
\* double-layer container after two decompressions
C11_Witness ==
    /\ DecodeReturned /\ dec.decoder = "palsav"
    /\ dec.save_type = 50 /\ dec.passes = 2
    /\ dec.data # <<>> /\ Len(dec.data) = dec.uncompressed_len

\* a returned decode on each of the other paths: deflate single layer, native
C11_WitnessSingleLayer ==
    /\ DecodeReturned /\ dec.decoder = "palsav"
    /\ dec.save_type = 49 /\ dec.passes = 1 /\ dec.data # <<>>

C11_WitnessNative ==
    /\ DecodeReturned /\ dec.decoder = "oodle"
    /\ dec.codec_called /\ dec.data # <<>>

====
